---- MODULE Spec2Model ----
(***************************************************************************)
(* Verification model of the two demonstration scripts                     *)
(*   src/demonstrations/tutorial_kernel_based_training.py                  *)
(*   src/demonstrations/tutorial_gbs.py                                    *)
(*                                                                         *)
(* Numbers.  Rotation angles are integers in units of pi/2, so that every  *)
(* amplitude of the simulated register is a Gaussian integer divided by a  *)
(* power of sqrt(2); expectation values are integers in units of 1/One.    *)
(***************************************************************************)
EXTENDS Integers, Sequences, FiniteSets, TLC

VARIABLES
    pc,                 \* position in the script / function being run
    \* the quantum node kernel and its device
    x1, x2,             \* arguments of the last kernel call
    kval,               \* value returned by the last kernel call
    dev_kernel,         \* dev_kernel.num_executions
    kernel_binding,     \* what the module-level name `kernel` is bound to
    \* the frame of kernel_matrix(A, B)
    A, B,               \* its arguments
    i,                  \* position of the outer comprehension (for a in A)
    row, rows,          \* the row being built, the rows built
    gram,               \* the matrix returned
    ret,                \* where kernel_matrix returns to
    dev_at_call,        \* history: dev_kernel.num_executions at the call
    \* module-level names of tutorial_kernel_based_training
    svm,                \* "unfitted" or "fitted"
    num_executions,     \* the value read from dev_kernel.num_executions
    evals_kernel,       \* the value of circuit_evals_kernel(n_data=len(X), ...)
    M,                  \* the variable of the scaling loop
    variational_training1, variational_training2,
    kernelbased_training, nn_training,
    \* one call of each counting function
    args,               \* the arguments of the calls
    out,                \* the values returned
    \* the frame of quantum_model_predict(X_pred, trained_params, trained_bias)
    X_pred,             \* its argument
    trained_bias,       \* its argument (sign of the bias)
    x_index,            \* position of the loop (for x in X_pred)
    p,                  \* the list of predictions
    dev_var,            \* dev_var.num_executions
    dev_var_at_call,    \* history: dev_var.num_executions at the call
    \* module-level names of tutorial_gbs
    U,                  \* the interferometer unitary
    dev,                \* the strawberryfields.gaussian device
    gbs_circuit,        \* the quantum node: "undefined" or "defined"
    gbs_executions,     \* number of executions of gbs_circuit
    probs,              \* the Fock state probabilities returned by gbs_circuit
    ms_index,           \* position of the loop over measure_states
    Bmat,               \* the name B
    cmp_index,          \* number of comparisons with the simulation made
    printed             \* what the last comparison printed

kvars == <<x1, x2, kval, dev_kernel, kernel_binding>>
mvars == <<A, B, i, row, rows, gram, ret, dev_at_call>>
lists == <<variational_training1, variational_training2,
           kernelbased_training, nn_training>>
svars == <<svm, num_executions, evals_kernel, M, lists>>
evars == <<args, out>>
pvars == <<X_pred, trained_bias, x_index, p, dev_var, dev_var_at_call>>
gvars == <<U, dev, gbs_circuit, gbs_executions, probs, ms_index, Bmat,
           cmp_index, printed>>
vars == <<pc, kvars, mvars, svars, evars, pvars, gvars>>

(***************************************************************************)
(* Bounds of the model                                                     *)
(***************************************************************************)
MaxAngle == 3           \* feature angles are 0..MaxAngle quarter turns (pi/2)
MaxLen == 2             \* data sets given to kernel_matrix have 0..MaxLen samples
MaxData == 9            \* n_data is 0..MaxData
MaxParams == 2          \* n_params is 0..MaxParams
MaxSteps == 2           \* n_steps is 0..MaxSteps
MaxShift == 2           \* evals_per_derivative is 0..MaxShift
MaxBatch == 2           \* batch_size is 0..MaxBatch
MaxPred == 3            \* X_pred has 0..MaxPred samples
MaxPrior == 1           \* dev_var has run 0..MaxPrior times before the call

(***************************************************************************)
(* Program constants                                                       *)
(***************************************************************************)
n_samples == 150        \* make_blobs(n_samples=150)
n_features == 3         \* make_blobs(n_features=3)
ScalingStop == 2000     \* x_axis = range(0, 2000, 100)
ScalingStep == 100
n_wires == 4            \* tutorial_gbs: n_wires = 4
cutoff == 10            \* tutorial_gbs: cutoff = 10
SqueezingR == 1         \* qml.Squeezing(1.0, 0.0, wires=i)
SqueezingPhi == 0
n_qubits == n_features  \* n_qubits = len(X_train[0])

Pow2(e) == 2 ^ e
Dim == Pow2(n_qubits)
Basis == 0 .. (Dim - 1)
One == Pow2(2 * n_qubits)       \* the expectation value 1.0

Angles == 0 .. MaxAngle
FeatureVectors == [1 .. n_qubits -> Angles]

(***************************************************************************)
(* default.qubit : state vectors [amp, h]; the amplitude of basis state b  *)
(* is (amp[b][1] + i*amp[b][2]) / sqrt(2)^h.  Wire 0 is the leftmost bit.  *)
(***************************************************************************)
\* The amplitudes are kept as a tuple: amplitude of basis state b is amp[b + 1].
RECURSIVE ZeroAmps(_)
ZeroAmps(b) ==
    IF b < 0 THEN <<>>
    ELSE Append(ZeroAmps(b - 1), IF b = 0 THEN <<1, 0>> ELSE <<0, 0>>)

ZeroState == [amp |-> ZeroAmps(Dim - 1), h |-> 0]

WireWeight(w) == Pow2(n_qubits - 1 - w)
Bit(b, w) == (b \div WireWeight(w)) % 2
Flip(b, w) == IF Bit(b, w) = 0 THEN b + WireWeight(w) ELSE b - WireWeight(w)

\* cos and sin of k*pi/4, times sqrt(2) when k is odd
Cos8 == <<1, 1, 0, -1, -1, -1, 0, 1>>
Sin8 == <<0, 1, 1, 1, 0, -1, -1, -1>>

\* RX(theta) = [[cos(theta/2), -i sin(theta/2)], [-i sin(theta/2), cos(theta/2)]]
\* with theta = k*pi/2
RECURSIVE RXAmps(_, _, _, _, _)
RXAmps(amp, c, s, w, b) ==
    IF b < 0 THEN <<>>
    ELSE Append(RXAmps(amp, c, s, w, b - 1),
                <<c * amp[b + 1][1] + s * amp[Flip(b, w) + 1][2],
                  c * amp[b + 1][2] - s * amp[Flip(b, w) + 1][1]>>)

RX(psi, k, w) ==
    [amp |-> RXAmps(psi.amp, Cos8[(k % 8) + 1], Sin8[(k % 8) + 1], w, Dim - 1),
     h   |-> psi.h + (k % 2)]

\* AngleEmbedding(features, wires=range(n_qubits)): RX(features[i]) on wire i,
\* in the order of the wires; upto is the number of rotations applied.
RECURSIVE AngleEmbedding(_, _, _)
AngleEmbedding(psi, features, upto) ==
    IF upto = 0 THEN psi
    ELSE RX(AngleEmbedding(psi, features, upto - 1), features[upto], upto - 1)

\* A variant that forgets the adjoint: the rotations are replayed, not undone.
RECURSIVE InvAngleEmbeddingReplayed(_, _, _)
InvAngleEmbeddingReplayed(psi, features, from) ==
    IF from > Len(features) THEN psi
    ELSE RX(InvAngleEmbeddingReplayed(psi, features, from + 1), features[from], from - 1)

\* qml.inv(AngleEmbedding(features, ...)): the recorded rotations in reverse
\* order, each replaced by its inverse RX(-features[i]).
RECURSIVE InvAngleEmbedding(_, _, _)
InvAngleEmbedding(psi, features, from) ==
    IF from > Len(features) THEN psi
    ELSE RX(InvAngleEmbedding(psi, features, from + 1), 0 - features[from], from - 1)

RECURSIVE Popcount(_)
Popcount(b) == IF b = 0 THEN 0 ELSE (b % 2) + Popcount(b \div 2)

NormSq(z) == z[1] * z[1] + z[2] * z[2]

\* qml.expval(Tensor(PauliZ(0), ..., PauliZ(n_qubits-1))):
\* sum over basis states of (-1)^(number of ones) * probability, in 1/One.
RECURSIVE SignedWeight(_, _)
SignedWeight(psi, b) ==
    IF b < 0 THEN 0
    ELSE (IF Popcount(b) % 2 = 0 THEN 1 ELSE -1) * NormSq(psi.amp[b + 1])
         + SignedWeight(psi, b - 1)

ExpvalTensorZ(psi) == SignedWeight(psi, Dim - 1) * Pow2(2 * n_qubits - psi.h)

\* The quantum node kernel(x1, x2)
kernel(a, b) ==
    ExpvalTensorZ(
        InvAngleEmbedding(AngleEmbedding(ZeroState, a, n_qubits), b, 1))

(***************************************************************************)
(* What the tutorial says the kernel is (docstring, lines 77-87, 188-190): *)
(* the squared overlap of the two embedded states, equal to the            *)
(* expectation of the projector on |0...0> after the circuit.              *)
(***************************************************************************)
Phi(x) == AngleEmbedding(ZeroState, x, n_qubits)

\* <u|v> = sum conj(u_b) v_b as <<re, im>> (unnormalised)
RECURSIVE InnerSum(_, _, _)
InnerSum(u, v, b) ==
    IF b < 0 THEN <<0, 0>>
    ELSE LET r == InnerSum(u, v, b - 1)
             ub == u.amp[b + 1]
             vb == v.amp[b + 1]
         IN  <<r[1] + ub[1] * vb[1] + ub[2] * vb[2],
               r[2] + ub[1] * vb[2] - ub[2] * vb[1]>>

SquaredOverlap(a, b) ==
    NormSq(InnerSum(Phi(b), Phi(a), Dim - 1))
        * Pow2(2 * n_qubits - Phi(a).h - Phi(b).h)

ProjectorExpval(psi) == NormSq(psi.amp[1]) * Pow2(2 * n_qubits - psi.h)

(***************************************************************************)
(* Python objects a module-level name can be bound to.                     *)
(***************************************************************************)
QNode == [kind |-> "qnode", value |-> 0]
IntObject(n) == [kind |-> "int", value |-> n]

(***************************************************************************)
(* Variables a specification does not use rest at these values.            *)
(***************************************************************************)
NoMatrixCall ==
    /\ A = <<>> /\ B = <<>> /\ i = 0
    /\ row = <<>> /\ rows = <<>> /\ gram = <<>>
    /\ ret = "none" /\ dev_at_call = 0

None == 0 - 1               \* a name not yet assigned

NoKernel ==
    /\ x1 = [q \in 1 .. n_qubits |-> 0]
    /\ x2 = [q \in 1 .. n_qubits |-> 0]
    /\ kval = 0
    /\ dev_kernel = 0
    /\ kernel_binding = QNode

NoCounting ==
    /\ args = [n_data |-> 0, n_params |-> 0, n_params_again |-> 0, n_steps |-> 0,
               evals_per_derivative |-> 0, batch_size |-> 0]
    /\ out = [kernel |-> None, variational |-> None, nn |-> None, nn_again |-> None]

NoPredict ==
    /\ X_pred = <<>>
    /\ trained_bias = 0
    /\ x_index = 0
    /\ p = <<>>
    /\ dev_var = 0
    /\ dev_var_at_call = 0

NoMatrix == <<>>
NoTensor == [squeezing |-> <<>>, interferometer |-> <<>>, shape |-> <<>>]
NoPrint == [uses_haf |-> FALSE, haf_of |-> [coef |-> <<>>, tanh_r |-> 0],
            cols |-> <<>>, rows |-> <<>>, factorial |-> 0, cosh_power |-> 0,
            cosh_r |-> 0, read |-> <<>>]

NoGbs ==
    /\ U = NoMatrix
    /\ dev = [wires |-> 0, cutoff_dim |-> 0]
    /\ gbs_circuit = "undefined"
    /\ gbs_executions = 0
    /\ probs = NoTensor
    /\ ms_index = 0
    /\ Bmat = [coef |-> NoMatrix, tanh_r |-> 0]
    /\ cmp_index = 0
    /\ printed = NoPrint

NoScript ==
    /\ svm = "unfitted"
    /\ num_executions = None
    /\ evals_kernel = None
    /\ M = None
    /\ variational_training1 = <<>> /\ variational_training2 = <<>>
    /\ kernelbased_training = <<>> /\ nn_training = <<>>

(***************************************************************************)
(* Specification SpecKernel: one call of the quantum node on arbitrary     *)
(* feature vectors.                                                        *)
(***************************************************************************)
InitKernel ==
    /\ pc = "kernel"
    /\ x1 \in FeatureVectors
    /\ x2 \in FeatureVectors
    /\ kval = 0
    /\ dev_kernel = 0
    /\ kernel_binding = QNode
    /\ NoMatrixCall
    /\ NoScript
    /\ NoCounting
    /\ NoPredict
    /\ NoGbs

\* kernel(x1, x2): one execution of the quantum node on dev_kernel
KernelCall ==
    /\ pc = "kernel"
    /\ kernel_binding = QNode
    /\ kval' = kernel(x1, x2)
    /\ dev_kernel' = dev_kernel + 1
    /\ pc' = "kernel_done"
    /\ UNCHANGED <<x1, x2, kernel_binding, mvars, svars, evars, pvars, gvars>>

NextKernel == KernelCall

SpecKernel == InitKernel /\ [][NextKernel]_vars

\* C1: kernel(x1, x2) is the expectation of the projector on |0...0>, i.e. the
\* squared overlap of the embedded states, and lies in [0, 1].
C1_KernelIsSquaredOverlap ==
    pc = "kernel_done" =>
        /\ kval = SquaredOverlap(x1, x2)
        /\ kval = ProjectorExpval(
                    InvAngleEmbedding(AngleEmbedding(ZeroState, x1, n_qubits), x2, 1))
        /\ 0 <= kval
        /\ kval <= One

\* C2: a data point compared with itself has kernel value 1.
C2_SelfKernelIsOne ==
    (pc = "kernel_done" /\ x1 = x2) => kval = One

C2_Witness ==
    /\ pc = "kernel_done"
    /\ x1 = x2
    /\ x1[1] = 1
    /\ kval = One

(***************************************************************************)
(* kernel_matrix(A, B):                                                    *)
(*     np.array([[kernel(a, b) for b in B] for a in A])                    *)
(* one step per a in A (a whole inner comprehension), and the return.      *)
(***************************************************************************)
\* A variant that exploits the symmetry of the Gram matrix: an entry below the
\* diagonal of kernel_matrix(A, A) is copied from the row built before, not
\* evaluated.
InnerComprehensionSymmetric(a, ran) ==
    LET copied == IF A = B THEN {c \in 1 .. Len(B) : c < i} ELSE {}
    IN  [row |-> [c \in 1 .. Len(B) |->
                    IF c \in copied THEN rows[c][i] ELSE kernel(a, B[c])],
         dev |-> ran + Len(B) - Cardinality(copied)]

\* [kernel(a, b) for b in B]: the values in the order of B, each one execution
\* of the quantum node, and dev_kernel.num_executions after them (ran before)
InnerComprehension(a, ran) ==
    [row |-> [c \in 1 .. Len(B) |-> kernel(a, B[c])],
     dev |-> ran + Len(B)]

\* the next a in A: its row is evaluated and added to the rows
KmRow ==
    /\ pc = "kernel_matrix"
    /\ i <= Len(A)
    /\ (Len(B) > 0 => kernel_binding = QNode)
    /\ LET done == InnerComprehension(A[i], dev_kernel)
       IN  /\ row' = done.row
           /\ dev_kernel' = done.dev
           /\ rows' = Append(rows, row')
    /\ i' = i + 1
    /\ UNCHANGED <<pc, x1, x2, kval, kernel_binding, A, B, gram, ret,
                   dev_at_call, svars, evars, pvars, gvars>>

\* the outer comprehension is exhausted: return np.array(rows)
KmReturn ==
    /\ pc = "kernel_matrix"
    /\ i > Len(A)
    /\ gram' = rows
    /\ pc' = ret
    /\ UNCHANGED <<kvars, A, B, i, row, rows, ret, dev_at_call, svars, evars, pvars, gvars>>

kernel_matrix == KmRow \/ KmReturn

(***************************************************************************)
(* Specification SpecKernelMatrix: kernel_matrix on arbitrary small data   *)
(* sets.                                                                   *)
(***************************************************************************)
\* the samples the data sets are drawn from: kernel values 1, -1 and 0 occur
SampleVectors == {<<0, 0, 0>>, <<2, 0, 0>>, <<1, 2, 3>>}

RECURSIVE SeqsUpTo(_, _)
SeqsUpTo(S, n) ==
    IF n = 0 THEN {<<>>}
    ELSE SeqsUpTo(S, n - 1) \cup [1 .. n -> S]

InitKernelMatrix ==
    /\ pc = "kernel_matrix"
    /\ x1 = [q \in 1 .. n_qubits |-> 0]
    /\ x2 = [q \in 1 .. n_qubits |-> 0]
    /\ kval = 0
    /\ dev_kernel \in {0, 1}
    /\ kernel_binding = QNode
    /\ A \in SeqsUpTo(SampleVectors, MaxLen)
    /\ B \in SeqsUpTo(SampleVectors, MaxLen)
    /\ i = 1
    /\ row = <<>> /\ rows = <<>> /\ gram = <<>>
    /\ ret = "kernel_matrix_done"
    /\ dev_at_call = dev_kernel
    /\ NoScript
    /\ NoCounting
    /\ NoPredict
    /\ NoGbs

NextKernelMatrix == kernel_matrix

SpecKernelMatrix == InitKernelMatrix /\ [][NextKernelMatrix]_vars

\* C3: kernel_matrix(A, B) has len(A) rows and len(B) columns, entry (i, j) is
\* kernel(A[i], B[j]), and the call executes the kernel circuit exactly
\* len(A)*len(B) times, also when A = B.
C3_KernelMatrixEntriesAndCost ==
    pc = "kernel_matrix_done" =>
        /\ Len(gram) = Len(A)
        /\ \A r \in 1 .. Len(A) :
              /\ Len(gram[r]) = Len(B)
              /\ \A c \in 1 .. Len(B) : gram[r][c] = kernel(A[r], B[c])
        /\ dev_kernel - dev_at_call = Len(A) * Len(B)

C3_Witness ==
    /\ pc = "kernel_matrix_done"
    /\ A = B
    /\ Len(A) = 2
    /\ A[1] # A[2]
    /\ dev_kernel - dev_at_call = 4
    /\ gram[1][2] = kernel(A[1], A[2])
(***************************************************************************)
(* The counting functions.  0.75 * n_data is exact in binary floating      *)
(* point, so np.ceil(0.75 * n_data) is the ceiling of the rational 3n/4.   *)
(***************************************************************************)
\* A variant that rounds down.
CeilThreeQuartersFloor(n_data) == (3 * n_data) \div 4

\* int(np.ceil(0.75 * n_data))
CeilThreeQuarters(n_data) == (3 * n_data + 3) \div 4

\* A variant that sizes the training set by rounding down.
circuit_evals_kernel_floor(n_data, split) ==
    LET Mtrain == CeilThreeQuartersFloor(n_data)
        Mpred == n_data - Mtrain
        n_training == Mtrain * Mtrain
        n_prediction == Mtrain * Mpred
    IN  n_training + n_prediction

circuit_evals_kernel(n_data, split) ==
    LET Mtrain == CeilThreeQuarters(n_data)
        Mpred == n_data - Mtrain
        n_training == Mtrain * Mtrain
        n_prediction == Mtrain * Mpred
    IN  n_training + n_prediction

\* A variant that forgets the cost of a derivative.
circuit_evals_variational_no_shift(n_data, n_params, n_steps, evals_per_derivative, split, batch_size) ==
    LET Mtrain == CeilThreeQuarters(n_data)
        Mpred == n_data - Mtrain
        n_training == n_params * n_steps * batch_size
        n_prediction == Mpred
    IN  n_training + n_prediction

circuit_evals_variational(n_data, n_params, n_steps, evals_per_derivative, split, batch_size) ==
    LET Mtrain == CeilThreeQuarters(n_data)
        Mpred == n_data - Mtrain
        n_training == n_params * n_steps * batch_size * evals_per_derivative
        n_prediction == Mpred
    IN  n_training + n_prediction

\* A variant whose training cost grows with the number of parameters.
model_evals_nn_per_param(n_data, n_params, n_steps, split, batch_size) ==
    LET Mtrain == CeilThreeQuarters(n_data)
        Mpred == n_data - Mtrain
        n_training == n_params * n_steps * batch_size
        n_prediction == Mpred
    IN  n_training + n_prediction

model_evals_nn(n_data, n_params, n_steps, split, batch_size) ==
    LET Mtrain == CeilThreeQuarters(n_data)
        Mpred == n_data - Mtrain
        n_training == n_steps * batch_size
        n_prediction == Mpred
    IN  n_training + n_prediction

(***************************************************************************)
(* The data of tutorial_kernel_based_training.  make_blobs and             *)
(* train_test_split are random; the model runs the script on one data set  *)
(* in which every feature vector over Angles occurs.                       *)
(***************************************************************************)
\* train_test_split(X_scaled, y_scaled) with the default test_size = 0.25:
\* ceil(0.25 * n) test samples, the others train
n_test == (n_samples + 3) \div 4
n_train == n_samples - n_test

Sample(s) ==
    [q \in 1 .. n_qubits |-> (s \div ((MaxAngle + 1) ^ (q - 1))) % (MaxAngle + 1)]

RECURSIVE Samples(_, _)
Samples(first, count) ==
    IF count = 0 THEN <<>>
    ELSE Append(Samples(first, count - 1), Sample(first + count - 1))

X_train == Samples(0, n_train)
X_test == Samples(n_train, n_test)

\* split=len(X_train) / len(X_test), a ratio <<numerator, denominator>>
SplitOfData == <<n_train, n_test>>
\* split=0.75
SplitLiteral == <<3, 4>>

(***************************************************************************)
(* Specification SpecScript: the statements of the script that use the     *)
(* kernel device or the name `kernel`, in program order (lines 204-295 and *)
(* 558-581).                                                               *)
(***************************************************************************)
InitScript ==
    /\ pc = "sanity_check"
    /\ x1 = [q \in 1 .. n_qubits |-> 0]
    /\ x2 = [q \in 1 .. n_qubits |-> 0]
    /\ kval = 0
    /\ dev_kernel = 0
    /\ kernel_binding = QNode
    /\ NoMatrixCall
    /\ NoScript
    /\ NoCounting
    /\ NoPredict
    /\ NoGbs

\* kernel(X_train[0], X_train[0])
SanityCheck ==
    /\ pc = "sanity_check"
    /\ kernel_binding = QNode
    /\ x1' = X_train[1]
    /\ x2' = X_train[1]
    /\ kval' = kernel(X_train[1], X_train[1])
    /\ dev_kernel' = dev_kernel + 1
    /\ pc' = "fit"
    /\ UNCHANGED <<kernel_binding, mvars, svars, evars, pvars, gvars>>

\* svm = SVC(kernel=kernel_matrix).fit(X_train, y_train): the solver asks
\* for kernel_matrix(X_train, X_train)
FitCall ==
    /\ pc = "fit"
    /\ A' = X_train
    /\ B' = X_train
    /\ i' = 1
    /\ row' = <<>> /\ rows' = <<>>
    /\ ret' = "fit_return"
    /\ dev_at_call' = dev_kernel
    /\ pc' = "kernel_matrix"
    /\ UNCHANGED <<kvars, gram, svars, evars, pvars, gvars>>

FitReturn ==
    /\ pc = "fit_return"
    /\ svm' = "fitted"
    /\ pc' = "predict"
    /\ UNCHANGED <<kvars, mvars, num_executions, evals_kernel, M, lists, evars, pvars, gvars>>

\* predictions = svm.predict(X_test): the solver asks for
\* kernel_matrix(X_test, X_train)
PredictCall ==
    /\ pc = "predict"
    /\ svm = "fitted"
    /\ A' = X_test
    /\ B' = X_train
    /\ i' = 1
    /\ row' = <<>> /\ rows' = <<>>
    /\ ret' = "predict_return"
    /\ dev_at_call' = dev_kernel
    /\ pc' = "kernel_matrix"
    /\ UNCHANGED <<kvars, gram, svars, evars, pvars, gvars>>

PredictReturn ==
    /\ pc = "predict_return"
    /\ pc' = "read_num_executions"
    /\ UNCHANGED <<kvars, mvars, svars, evars, pvars, gvars>>

\* dev_kernel.num_executions
ReadNumExecutions ==
    /\ pc = "read_num_executions"
    /\ num_executions' = dev_kernel
    /\ pc' = "circuit_evals_kernel"
    /\ UNCHANGED <<kvars, mvars, svm, evals_kernel, M, lists, evars, pvars, gvars>>

\* circuit_evals_kernel(n_data=len(X), split=len(X_train) / len(X_test))
CircuitEvalsKernelCall ==
    /\ pc = "circuit_evals_kernel"
    /\ evals_kernel' = circuit_evals_kernel(n_samples, SplitOfData)
    /\ pc' = "scaling_loop"
    /\ UNCHANGED <<kvars, mvars, svm, num_executions, M, lists, evars, pvars, gvars>>

\* round(np.sqrt(n)): the integer nearest to the square root (4n is never an
\* odd square, so there is no tie)
RoundSqrt(n) ==
    CHOOSE k \in 0 .. n :
        /\ 4 * n < (2 * k + 1) * (2 * k + 1)
        /\ (k = 0 \/ (2 * k - 1) * (2 * k - 1) < 4 * n)

\* for M in x_axis: the next element of range(0, 2000, 100), or the end
NextOfRange == IF M = None THEN 0 ELSE M + ScalingStep

LoopHead ==
    /\ pc = "scaling_loop"
    /\ IF NextOfRange < ScalingStop
         THEN /\ M' = NextOfRange
              /\ pc' = "loop_var1"
         ELSE /\ M' = M
              /\ pc' = "plot"
    /\ UNCHANGED <<kvars, mvars, svm, num_executions, evals_kernel, lists, evars, pvars, gvars>>

\* var1 = circuit_evals_variational(n_data=M, n_params=M, n_steps=M,
\*     evals_per_derivative=2, split=0.75, batch_size=1)
LoopVar1 ==
    /\ pc = "loop_var1"
    /\ variational_training1' =
           Append(variational_training1,
                  circuit_evals_variational(M, M, M, 2, SplitLiteral, 1))
    /\ pc' = "loop_var2"
    /\ UNCHANGED <<kvars, mvars, svm, num_executions, evals_kernel, M,
                   variational_training2, kernelbased_training, nn_training,
                   evars, pvars, gvars>>

\* var2 = circuit_evals_variational(n_data=M, n_params=round(np.sqrt(M)), ...)
LoopVar2 ==
    /\ pc = "loop_var2"
    /\ variational_training2' =
           Append(variational_training2,
                  circuit_evals_variational(M, RoundSqrt(M), M, 2, SplitLiteral, 1))
    /\ pc' = "loop_kernel"
    /\ UNCHANGED <<kvars, mvars, svm, num_executions, evals_kernel, M,
                   variational_training1, kernelbased_training, nn_training,
                   evars, pvars, gvars>>

\* kernel = circuit_evals_kernel(n_data=M, split=0.75)
\* kernelbased_training.append(kernel)
LoopKernel ==
    /\ pc = "loop_kernel"
    /\ kernel_binding' = IntObject(circuit_evals_kernel(M, SplitLiteral))
    /\ kernelbased_training' = Append(kernelbased_training, kernel_binding'.value)
    /\ pc' = "loop_nn"
    /\ UNCHANGED <<x1, x2, kval, dev_kernel, mvars, svm, num_executions,
                   evals_kernel, M, variational_training1,
                   variational_training2, nn_training, evars, pvars, gvars>>

\* nn = model_evals_nn(n_data=M, n_params=M, n_steps=M, split=0.75, batch_size=1)
LoopNN ==
    /\ pc = "loop_nn"
    /\ nn_training' = Append(nn_training, model_evals_nn(M, M, M, SplitLiteral, 1))
    /\ pc' = "scaling_loop"
    /\ UNCHANGED <<kvars, mvars, svm, num_executions, evals_kernel, M,
                   variational_training1, variational_training2,
                   kernelbased_training, evars, pvars, gvars>>

NextScript ==
    \/ SanityCheck
    \/ FitCall
    \/ kernel_matrix
    \/ FitReturn
    \/ PredictCall
    \/ PredictReturn
    \/ ReadNumExecutions
    \/ CircuitEvalsKernelCall
    \/ LoopHead
    \/ LoopVar1
    \/ LoopVar2
    \/ LoopKernel
    \/ LoopNN

SpecScript == InitScript /\ [][NextScript]_vars

\* C4: the executions of the kernel device up to the read of
\* dev_kernel.num_executions (the sanity check, the Gram matrix of fit and the
\* kernel matrix of predict) are at most circuit_evals_kernel(n_data=len(X), ...).
C4_ExecutionsWithinEstimate ==
    evals_kernel # None =>
        /\ num_executions = 1 + n_train * n_train + n_test * n_train
        /\ num_executions <= evals_kernel

C4_Witness ==
    /\ evals_kernel # None
    /\ num_executions = dev_kernel
    /\ num_executions > n_train * n_train
    /\ svm = "fitted"

(***************************************************************************)
(* Specification SpecCounting: the three counting functions, each called   *)
(* on arbitrary arguments; model_evals_nn is called a second time with     *)
(* another n_params.                                                       *)
(***************************************************************************)
InitCounting ==
    /\ pc = "call_circuit_evals_kernel"
    /\ args \in [n_data : 0 .. MaxData,
                 n_params : 0 .. MaxParams,
                 n_params_again : 0 .. MaxParams,
                 n_steps : 0 .. MaxSteps,
                 evals_per_derivative : 0 .. MaxShift,
                 batch_size : 0 .. MaxBatch]
    /\ out = [kernel |-> None, variational |-> None, nn |-> None, nn_again |-> None]
    /\ NoKernel
    /\ NoMatrixCall
    /\ NoScript
    /\ NoPredict
    /\ NoGbs

CallCircuitEvalsKernel ==
    /\ pc = "call_circuit_evals_kernel"
    /\ out' = [out EXCEPT !.kernel = circuit_evals_kernel(args.n_data, SplitLiteral)]
    /\ pc' = "call_circuit_evals_variational"
    /\ UNCHANGED <<kvars, mvars, svars, args, pvars, gvars>>

CallCircuitEvalsVariational ==
    /\ pc = "call_circuit_evals_variational"
    /\ out' = [out EXCEPT !.variational =
                  circuit_evals_variational(args.n_data, args.n_params, args.n_steps,
                                            args.evals_per_derivative, SplitLiteral,
                                            args.batch_size)]
    /\ pc' = "call_model_evals_nn"
    /\ UNCHANGED <<kvars, mvars, svars, args, pvars, gvars>>

CallModelEvalsNN ==
    /\ pc = "call_model_evals_nn"
    /\ out' = [out EXCEPT !.nn =
                  model_evals_nn(args.n_data, args.n_params, args.n_steps,
                                 SplitLiteral, args.batch_size)]
    /\ pc' = "call_model_evals_nn_again"
    /\ UNCHANGED <<kvars, mvars, svars, args, pvars, gvars>>

CallModelEvalsNNAgain ==
    /\ pc = "call_model_evals_nn_again"
    /\ out' = [out EXCEPT !.nn_again =
                  model_evals_nn(args.n_data, args.n_params_again, args.n_steps,
                                 SplitLiteral, args.batch_size)]
    /\ pc' = "counted"
    /\ UNCHANGED <<kvars, mvars, svars, args, pvars, gvars>>

NextCounting ==
    \/ CallCircuitEvalsKernel
    \/ CallCircuitEvalsVariational
    \/ CallModelEvalsNN
    \/ CallModelEvalsNNAgain

SpecCounting == InitCounting /\ [][NextCounting]_vars

\* ceil(0.75 * n), by its defining property: the least integer m with m >= 3n/4
CeilingOfThreeQuarters(n) ==
    CHOOSE m \in 0 .. n : 4 * m >= 3 * n /\ 4 * (m - 1) < 3 * n

\* C5: circuit_evals_kernel(n_data, split) = M*M + M*Mpred with
\* M = ceil(0.75*n_data) and Mpred = n_data - M, which is M*n_data.
C5_CircuitEvalsKernelValue ==
    out.kernel # None =>
        LET Mc == CeilingOfThreeQuarters(args.n_data)
            Mpred == args.n_data - Mc
        IN  /\ out.kernel = Mc * Mc + Mc * Mpred
            /\ Mc + Mpred = args.n_data
            /\ out.kernel = Mc * args.n_data

C5_Witness ==
    /\ out.kernel # None
    /\ args.n_data = 6
    /\ out.kernel = 30

\* C6: circuit_evals_variational returns
\* n_params*n_steps*batch_size*evals_per_derivative + Mpred with
\* Mpred = n_data - ceil(0.75*n_data).
C6_CircuitEvalsVariationalValue ==
    out.variational # None =>
        out.variational =
            args.n_params * args.n_steps * args.batch_size * args.evals_per_derivative
            + (args.n_data - CeilingOfThreeQuarters(args.n_data))

C6_Witness ==
    /\ out.variational # None
    /\ args.n_data = 6
    /\ args.n_params = 2 /\ args.n_steps = 2
    /\ args.batch_size = 1 /\ args.evals_per_derivative = 2
    /\ out.variational = 9

\* C8: model_evals_nn does not depend on n_params (it is n_steps*batch_size +
\* Mpred), the training term of circuit_evals_variational is proportional to
\* n_params, and for n_params >= 1, evals_per_derivative >= 1:
\* model_evals_nn <= circuit_evals_variational, strictly when
\* n_params*evals_per_derivative > 1 and n_steps*batch_size > 0.
C8_NNIndependentOfParams ==
    out.nn_again # None =>
        LET Mpred == args.n_data - CeilingOfThreeQuarters(args.n_data)
        IN  /\ out.nn = out.nn_again
            /\ out.nn = args.n_steps * args.batch_size + Mpred
            /\ out.variational - Mpred =
                  args.n_params
                  * (args.n_steps * args.batch_size * args.evals_per_derivative)
            /\ (args.n_params >= 1 /\ args.evals_per_derivative >= 1) =>
                  /\ out.nn <= out.variational
                  /\ (args.n_params * args.evals_per_derivative > 1
                        /\ args.n_steps * args.batch_size > 0)
                       => out.nn < out.variational

C8_Witness ==
    /\ out.nn_again # None
    /\ args.n_params = 2 /\ args.n_params_again = 1
    /\ args.evals_per_derivative = 2
    /\ args.n_steps = 2 /\ args.batch_size = 2
    /\ out.nn = out.nn_again
    /\ out.nn < out.variational

(***************************************************************************)
(* quantum_model_predict and the functions it calls.  The expectation      *)
(* value of the variational circuit depends on the trained parameters; the *)
(* model keeps its sign (-1, 0, 1), and the sign of the bias.              *)
(***************************************************************************)
ModelValues == (0 - 1) .. 1

\* quantum_model(x, params): one execution of the quantum node on dev_var;
\* value is the expectation measured
quantum_model(value, ran) == [value |-> value, dev |-> ran + 1]

\* A variant that evaluates the circuit a second time for the bias.
quantum_model_plus_bias_twice(value, bias, ran) ==
    LET first == quantum_model(value, ran)
        second == quantum_model(value, first.dev)
    IN  [value |-> first.value + bias, dev |-> second.dev]

\* quantum_model_plus_bias(x, params, bias)
quantum_model_plus_bias(value, bias, ran) ==
    LET run == quantum_model(value, ran)
    IN  [value |-> run.value + bias, dev |-> run.dev]

(***************************************************************************)
(* Specification SpecPredict: quantum_model_predict on an arbitrary small  *)
(* X_pred, after training.                                                 *)
(***************************************************************************)
InitPredict ==
    /\ pc = "quantum_model_predict"
    /\ X_pred \in SeqsUpTo(SampleVectors, MaxPred)
    /\ trained_bias \in ModelValues
    /\ x_index = 1
    /\ p = <<>>
    /\ dev_var \in 0 .. MaxPrior
    /\ dev_var_at_call = dev_var
    /\ NoKernel
    /\ NoMatrixCall
    /\ NoScript
    /\ NoCounting
    /\ NoGbs

\* the body of the loop, for the next x in X_pred
PredictSample ==
    /\ pc = "quantum_model_predict"
    /\ x_index <= Len(X_pred)
    /\ \E value \in ModelValues :
          LET pred_torch == quantum_model_plus_bias(value, trained_bias, dev_var)
              pred == IF pred_torch.value > 0 THEN 1 ELSE 0 - 1
          IN  /\ p' = Append(p, pred)
              /\ dev_var' = pred_torch.dev
    /\ x_index' = x_index + 1
    /\ UNCHANGED <<pc, kvars, mvars, svars, evars, X_pred, trained_bias,
                   dev_var_at_call, gvars>>

\* return p
PredictDone ==
    /\ pc = "quantum_model_predict"
    /\ x_index > Len(X_pred)
    /\ pc' = "quantum_model_predict_done"
    /\ UNCHANGED <<kvars, mvars, svars, evars, pvars, gvars>>

NextPredict == PredictSample \/ PredictDone

SpecPredict == InitPredict /\ [][NextPredict]_vars

\* C7: quantum_model_predict executes the variational circuit exactly once
\* for each sample of X_pred: a call on Mpred samples adds Mpred executions
\* to dev_var (and returns one prediction per sample).
C7_OneExecutionPerSample ==
    /\ pc = "quantum_model_predict" =>
          dev_var - dev_var_at_call = x_index - 1
    /\ pc = "quantum_model_predict_done" =>
          /\ dev_var - dev_var_at_call = Len(X_pred)
          /\ Len(p) = Len(X_pred)

C7_Witness ==
    /\ pc = "quantum_model_predict_done"
    /\ Len(X_pred) = 3
    /\ dev_var_at_call = 1
    /\ dev_var = 4
    /\ p = <<1, 0 - 1, 1>>

(***************************************************************************)
(* tutorial_gbs.  Complex numbers are pairs <<re, im>> of integers.  A     *)
(* unitary is [num, norm]: the matrix num / sqrt(norm).  B = U U^T tanh(r) *)
(* is [coef, tanh_r]: the matrix coef * tanh(tanh_r).                      *)
(***************************************************************************)
Wires == 1 .. n_wires

CAdd(y, z) == <<y[1] + z[1], y[2] + z[2]>>
CMul(y, z) == <<y[1] * z[1] - y[2] * z[2], y[1] * z[2] + y[2] * z[1]>>
CZero == <<0, 0>>
CUnit == <<1, 0>>
CImag == <<0, 1>>

\* U.T
Transpose(P) == [r \in Wires |-> [c \in Wires |-> P[c][r]]]

RECURSIVE DotEntry(_, _, _, _, _)
DotEntry(P, Q, r, c, upto) ==
    IF upto = 0 THEN CZero
    ELSE CAdd(DotEntry(P, Q, r, c, upto - 1), CMul(P[r][upto], Q[upto][c]))

\* np.dot(P, Q)
Dot(P, Q) == [r \in Wires |-> [c \in Wires |-> DotEntry(P, Q, r, c, n_wires)]]

\* np.dot(U, U.T) for U = num / sqrt(norm)
UUT(u) ==
    LET g == Dot(u.num, Transpose(u.num))
    IN  [r \in Wires |-> [c \in Wires |->
            <<g[r][c][1] \div u.norm, g[r][c][2] \div u.norm>>]]

\* P[:, col_list][row_list] (0-based index lists)
Select(P, col_list, row_list) ==
    [r \in 1 .. Len(row_list) |->
        [c \in 1 .. Len(col_list) |-> P[row_list[r] + 1][col_list[c] + 1]]]

\* unitary_group.rvs(4): the unitaries the model draws U from are the
\* permutation matrices with phases 1 or i, and the pair of 50:50 beam
\* splitters [[1, i], [i, 1]] / sqrt(2) followed by a permutation
WirePermutations ==
    {s \in [Wires -> Wires] : \A a, b \in Wires : a # b => s[a] # s[b]}

PhasePermutations ==
    {[num  |-> [r \in Wires |-> [c \in Wires |-> IF c = s[r] THEN f[r] ELSE CZero]],
      norm |-> 1] : s \in WirePermutations, f \in [Wires -> {CUnit, CImag}]}

BeamSplitters ==
    <<<<CUnit, CImag, CZero, CZero>>,
      <<CImag, CUnit, CZero, CZero>>,
      <<CZero, CZero, CUnit, CImag>>,
      <<CZero, CZero, CImag, CUnit>>>>

PermutedBeamSplitters ==
    {[num  |-> [r \in Wires |-> [c \in Wires |-> BeamSplitters[s[r]][c]]],
      norm |-> 2] : s \in WirePermutations}

Unitaries == PhasePermutations \cup PermutedBeamSplitters

\* measure_states
measure_states ==
    <<<<0, 0, 0, 0>>, <<1, 1, 0, 0>>, <<0, 1, 0, 1>>, <<1, 1, 1, 1>>, <<2, 0, 0, 0>>>>

\* A variant of the comparisons whose last one takes the first two modes for
\* the two photons of mode 0.
ComparisonsFirstTwoModes ==
    <<[uses_haf |-> FALSE, assigns_B |-> FALSE, all |-> FALSE,
       cols |-> <<>>, rows |-> <<>>, tanh_r |-> 0,
       factorial |-> 1, cosh_power |-> 4, cosh_r |-> 1, read |-> <<0, 0, 0, 0>>],
      [uses_haf |-> TRUE, assigns_B |-> TRUE, all |-> FALSE,
       cols |-> <<0, 1>>, rows |-> <<0, 1>>, tanh_r |-> 1,
       factorial |-> 1, cosh_power |-> 4, cosh_r |-> 1, read |-> <<1, 1, 0, 0>>],
      [uses_haf |-> TRUE, assigns_B |-> TRUE, all |-> FALSE,
       cols |-> <<1, 3>>, rows |-> <<1, 3>>, tanh_r |-> 1,
       factorial |-> 1, cosh_power |-> 4, cosh_r |-> 1, read |-> <<0, 1, 0, 1>>],
      [uses_haf |-> TRUE, assigns_B |-> TRUE, all |-> TRUE,
       cols |-> <<>>, rows |-> <<>>, tanh_r |-> 1,
       factorial |-> 1, cosh_power |-> 4, cosh_r |-> 1, read |-> <<1, 1, 1, 1>>],
      [uses_haf |-> TRUE, assigns_B |-> TRUE, all |-> FALSE,
       cols |-> <<0, 1>>, rows |-> <<0, 1>>, tanh_r |-> 1,
       factorial |-> 2, cosh_power |-> 4, cosh_r |-> 1, read |-> <<2, 0, 0, 0>>]>>

\* The five comparisons of the closed form with the simulation, as written:
\*   uses_haf, assigns_B : whether the statement calls haf(B), assigns B
\*   all, cols, rows     : the whole matrix, or the index lists [:, cols][rows]
\*   tanh_r              : the argument of np.tanh in the expression of B
\*   factorial, cosh_power, cosh_r : the divisor factorial * cosh(cosh_r)**cosh_power
\*   read                : the index of probs printed next
Comparisons ==
    <<[uses_haf |-> FALSE, assigns_B |-> FALSE, all |-> FALSE,
       cols |-> <<>>, rows |-> <<>>, tanh_r |-> 0,
       factorial |-> 1, cosh_power |-> 4, cosh_r |-> 1, read |-> <<0, 0, 0, 0>>],
      [uses_haf |-> TRUE, assigns_B |-> TRUE, all |-> FALSE,
       cols |-> <<0, 1>>, rows |-> <<0, 1>>, tanh_r |-> 1,
       factorial |-> 1, cosh_power |-> 4, cosh_r |-> 1, read |-> <<1, 1, 0, 0>>],
      [uses_haf |-> TRUE, assigns_B |-> TRUE, all |-> FALSE,
       cols |-> <<1, 3>>, rows |-> <<1, 3>>, tanh_r |-> 1,
       factorial |-> 1, cosh_power |-> 4, cosh_r |-> 1, read |-> <<0, 1, 0, 1>>],
      [uses_haf |-> TRUE, assigns_B |-> TRUE, all |-> TRUE,
       cols |-> <<>>, rows |-> <<>>, tanh_r |-> 1,
       factorial |-> 1, cosh_power |-> 4, cosh_r |-> 1, read |-> <<1, 1, 1, 1>>],
      [uses_haf |-> TRUE, assigns_B |-> TRUE, all |-> FALSE,
       cols |-> <<0, 0>>, rows |-> <<0, 0>>, tanh_r |-> 1,
       factorial |-> 2, cosh_power |-> 4, cosh_r |-> 1, read |-> <<2, 0, 0, 0>>]>>

\* the whole matrix is every mode once, in order
AllModes == [w \in Wires |-> w - 1]

(***************************************************************************)
(* Specification SpecGbs: tutorial_gbs, statement by statement.            *)
(***************************************************************************)
InitGbs ==
    /\ pc = "assign_U"
    /\ NoGbs
    /\ NoKernel
    /\ NoMatrixCall
    /\ NoScript
    /\ NoCounting
    /\ NoPredict

nongbs == <<kvars, mvars, svars, evars, pvars>>

\* U = unitary_group.rvs(4)
AssignU ==
    /\ pc = "assign_U"
    /\ U' \in Unitaries
    /\ pc' = "device"
    /\ UNCHANGED <<nongbs, dev, gbs_circuit, gbs_executions, probs, ms_index,
                   Bmat, cmp_index, printed>>

\* dev = qml.device("strawberryfields.gaussian", wires=n_wires, cutoff_dim=cutoff)
CreateDevice ==
    /\ pc = "device"
    /\ dev' = [wires |-> n_wires, cutoff_dim |-> cutoff]
    /\ pc' = "define_circuit"
    /\ UNCHANGED <<nongbs, U, gbs_circuit, gbs_executions, probs, ms_index,
                   Bmat, cmp_index, printed>>

\* @qml.qnode(dev) def gbs_circuit(): ...
DefineCircuit ==
    /\ pc = "define_circuit"
    /\ gbs_circuit' = "defined"
    /\ pc' = "execute"
    /\ UNCHANGED <<nongbs, U, dev, gbs_executions, probs, ms_index, Bmat,
                   cmp_index, printed>>

\* A variant of the execution that sits in a loop and runs the circuit a
\* second time before the post-processing starts.
ExecuteCircuitAgain ==
    /\ pc = "execute"
    /\ gbs_circuit = "defined"
    /\ probs' = [squeezing |-> [w \in 1 .. dev.wires |-> <<SqueezingR, SqueezingPhi>>],
                 interferometer |-> U,
                 shape |-> [w \in Wires |-> dev.cutoff_dim]]
    /\ gbs_executions' = gbs_executions + 1
    /\ ms_index' = 1
    /\ pc' = IF gbs_executions = 0 THEN "execute" ELSE "measure_states"
    /\ UNCHANGED <<nongbs, U, dev, gbs_circuit, Bmat, cmp_index, printed>>

\* probs = gbs_circuit().reshape([cutoff] * n_wires): Squeezing(1.0, 0.0) on
\* every wire, then Interferometer(U); the tensor is known by the state it is
\* the distribution of
ExecuteCircuit ==
    /\ pc = "execute"
    /\ gbs_circuit = "defined"
    /\ probs' = [squeezing |-> [w \in 1 .. dev.wires |-> <<SqueezingR, SqueezingPhi>>],
                 interferometer |-> U,
                 shape |-> [w \in Wires |-> dev.cutoff_dim]]
    /\ gbs_executions' = gbs_executions + 1
    /\ ms_index' = 1
    /\ pc' = "measure_states"
    /\ UNCHANGED <<nongbs, U, dev, gbs_circuit, Bmat, cmp_index, printed>>

\* for i in measure_states: print(... probs[i])
PrintMeasured ==
    /\ pc = "measure_states"
    /\ IF ms_index <= Len(measure_states)
         THEN /\ ms_index' = ms_index + 1
              /\ pc' = pc
         ELSE /\ ms_index' = ms_index
              /\ pc' = "assign_B"
    /\ UNCHANGED <<nongbs, U, dev, gbs_circuit, gbs_executions, probs, Bmat,
                   cmp_index, printed>>

\* B = (np.dot(U, U.T) * np.tanh(1))
AssignB ==
    /\ pc = "assign_B"
    /\ Bmat' = [coef |-> UUT(U), tanh_r |-> 1]
    /\ pc' = "print_submatrix"
    /\ UNCHANGED <<nongbs, U, dev, gbs_circuit, gbs_executions, probs, ms_index,
                   cmp_index, printed>>

\* print(B[:, [0, 1]][[0, 1]])
PrintSubmatrix ==
    /\ pc = "print_submatrix"
    /\ pc' = "compare"
    /\ UNCHANGED <<nongbs, gvars>>

\* the next comparison: B = (np.dot(U, U.T) * np.tanh(r))[:, cols][rows] where
\* it is assigned, print(closed form), print(probs[read])
Compare ==
    /\ pc = "compare"
    /\ cmp_index < Len(Comparisons)
    /\ LET c == Comparisons[cmp_index + 1]
           col_list == IF c.all THEN AllModes ELSE c.cols
           row_list == IF c.all THEN AllModes ELSE c.rows
       IN  /\ Bmat' = IF c.assigns_B
                         THEN [coef |-> Select(UUT(U), col_list, row_list),
                               tanh_r |-> c.tanh_r]
                         ELSE Bmat
           /\ printed' = [uses_haf |-> c.uses_haf,
                          haf_of |-> IF c.uses_haf THEN Bmat' ELSE NoPrint.haf_of,
                          cols |-> col_list, rows |-> row_list,
                          factorial |-> c.factorial,
                          cosh_power |-> c.cosh_power,
                          cosh_r |-> c.cosh_r,
                          read |-> c.read]
    /\ cmp_index' = cmp_index + 1
    /\ UNCHANGED <<pc, nongbs, U, dev, gbs_circuit, gbs_executions, probs, ms_index>>

EndOfScript ==
    /\ pc = "compare"
    /\ cmp_index = Len(Comparisons)
    /\ pc' = "end"
    /\ UNCHANGED <<nongbs, gvars>>

NextGbs ==
    \/ AssignU
    \/ CreateDevice
    \/ DefineCircuit
    \/ ExecuteCircuit
    \/ PrintMeasured
    \/ AssignB
    \/ PrintSubmatrix
    \/ Compare
    \/ EndOfScript

SpecGbs == InitGbs /\ [][NextGbs]_vars

Occurrences(m, list) == Cardinality({q \in 1 .. Len(list) : list[q] = m})

RECURSIVE Factorial(_)
Factorial(n) == IF n <= 0 THEN 1 ELSE n * Factorial(n - 1)

RECURSIVE FactorialProduct(_, _)
FactorialProduct(n, upto) ==
    IF upto = 0 THEN 1 ELSE Factorial(n[upto]) * FactorialProduct(n, upto - 1)

\* mode m repeated count times
RECURSIVE Repeat(_, _)
Repeat(m, count) == IF count = 0 THEN <<>> ELSE <<m>> \o Repeat(m, count - 1)

\* the index list of the Fock state n: mode 0 n[1] times, then mode 1, ...
RECURSIVE ModesOf(_, _)
ModesOf(n, upto) ==
    IF upto = 0 THEN <<>> ELSE ModesOf(n, upto - 1) \o Repeat(upto - 1, n[upto])

\* C10: in every comparison the submatrix of B = U U^T tanh(r) is selected with
\* one index list for rows and columns in which mode i occurs n_i times for the
\* Fock state compared (empty, with hafnian 1, for (0,0,0,0)), the divisor is
\* n_1!...n_4! * cosh(r)^4, and r is the squeezing applied to every wire.
C10_ComparisonsMatchFockStates ==
    (pc \in {"compare", "end"} /\ cmp_index >= 1) =>
        LET n == printed.read
        IN  /\ n = measure_states[cmp_index]
            /\ printed.cols = printed.rows
            /\ \A m \in 0 .. n_wires - 1 : Occurrences(m, printed.rows) = n[m + 1]
            /\ printed.uses_haf =>
                  /\ printed.haf_of.coef
                        = Select(UUT(probs.interferometer), ModesOf(n, n_wires),
                                 ModesOf(n, n_wires))
                  /\ \A w \in Wires : printed.haf_of.tanh_r = probs.squeezing[w][1]
            /\ ~printed.uses_haf => printed.rows = <<>>
            /\ printed.factorial = FactorialProduct(n, n_wires)
            /\ printed.cosh_power = n_wires
            /\ \A w \in Wires : printed.cosh_r = probs.squeezing[w][1]

C10_Witness ==
    /\ pc = "end"
    /\ cmp_index = 5
    /\ printed.read = <<2, 0, 0, 0>>
    /\ printed.rows = <<0, 0>>
    /\ printed.factorial = 2
    /\ U.norm = 1
    /\ printed.haf_of.coef # <<<<CZero, CZero>>, <<CZero, CZero>>>>

\* the statements of tutorial_gbs in the order of the file
GbsOrder ==
    <<"assign_U", "device", "define_circuit", "execute", "measure_states",
      "assign_B", "print_submatrix", "compare", "end">>

GbsPosition(at) == CHOOSE q \in 1 .. Len(GbsOrder) : GbsOrder[q] = at

\* the statements after probs = gbs_circuit()...
PostProcessing == {"measure_states", "assign_B", "print_submatrix", "compare", "end"}

C11_Placement ==
    /\ gbs_circuit = "defined" => dev = [wires |-> n_wires, cutoff_dim |-> cutoff]
    /\ gbs_executions = (IF pc \in PostProcessing THEN 1 ELSE 0)
    /\ gbs_executions = 1 => /\ U \in Unitaries
                             /\ gbs_circuit = "defined"
                             /\ probs.interferometer = U
    /\ gbs_executions = 0 => /\ probs = NoTensor
                             /\ ms_index = 0
                             /\ Bmat.coef = NoMatrix
                             /\ printed = NoPrint
    /\ Bmat.coef # NoMatrix =>
           Bmat.coef = IF printed.uses_haf
                         THEN Select(UUT(U), printed.cols, printed.rows)
                         ELSE UUT(U)

C11_Frame ==
    /\ GbsPosition(pc') >= GbsPosition(pc)
    /\ U # NoMatrix => U' = U
    /\ U' # U => pc = "assign_U"
    /\ probs # NoTensor => probs' = probs
    /\ probs' # probs => pc = "execute" /\ gbs_executions' = 1
    /\ gbs_executions' # gbs_executions => pc = "execute" /\ probs' # NoTensor

\* C11: tutorial_gbs is one linear sequence of statements: the device exists
\* when the circuit is defined, the circuit is executed exactly once and all
\* post-processing comes after that execution; U is assigned once, before the
\* execution, probs is assigned once, by the execution, no later statement
\* changes either, and every B is computed from the unchanged U.
C11_LinearScriptKeepsUAndProbs == [] C11_Placement /\ [][C11_Frame]_vars

C11_Witness ==
    /\ pc = "end"
    /\ gbs_executions = 1
    /\ cmp_index = Len(Comparisons)
    /\ U \in Unitaries
    /\ probs.interferometer = U
    /\ Bmat.coef = Select(UUT(U), <<0, 0>>, <<0, 0>>)

\* C12: at every point of tutorial_kernel_based_training after the definition
\* of the quantum kernel, the module-level name kernel is bound to the quantum
\* node, so that kernel_matrix (whose rows call kernel by that name) can be
\* invoked.
C12_KernelNameBoundToQNode == kernel_binding = QNode
====
